---- MODULE Spec2Model ----
(***************************************************************************)
(* Variable FK rig builder (src/variable_FK.py).                           *)
(*                                                                         *)
(* build_variable_fk is modelled as a sequential procedure whose position  *)
(* is pc; every loop body of the script is one step.  The scene is the     *)
(* set of nodes the script created, deleted and hid, the parent relation   *)
(* of the transforms, the attribute values of controls and control joints  *)
(* and the connections into the offset groups.  The dependency network the *)
(* script wires is evaluated by operators named after the script's nodes.  *)
(* Attribute values are exact rationals <<numerator, denominator>>.        *)
(***************************************************************************)
EXTENDS Integers, Sequences, FiniteSets, TLC

(* ---------------------------------------------------------------- bounds *)

\* longest selection handed to build_variable_fk
MaxSel == 4

\* largest number_of_controls
MaxControls == 2

\* longest animator session on the built rig (attribute edits)
MaxEdits == 1

(* ------------------------------------------------------------- rationals *)

Abs(n) == IF n < 0 THEN -n ELSE n

RECURSIVE GCD(_, _)
GCD(a, b) == IF b = 0 THEN a ELSE GCD(b, a % b)

\* the rational n/d in lowest terms with a positive denominator
Rat(n, d) ==
    LET g == GCD(Abs(n), Abs(d))
        s == IF d < 0 THEN -1 ELSE 1
    IN  <<(s * n) \div g, (s * d) \div g>>

RInt(n) == <<n, 1>>
RZero == RInt(0)
ROne == RInt(1)
RAdd(x, y) == Rat(x[1] * y[2] + y[1] * x[2], x[2] * y[2])
RSub(x, y) == Rat(x[1] * y[2] - y[1] * x[2], x[2] * y[2])
RMul(x, y) == Rat(x[1] * y[1], x[2] * y[2])
\* a zero divisor is never evaluated: falloff is clamped to [0.1, 0.5]
RDiv(x, y) == Rat(x[1] * y[2], x[2] * y[1])
RLt(x, y) == x[1] * y[2] < y[1] * x[2]
RLe(x, y) == x[1] * y[2] <= y[1] * x[2]
RAbs(x) == <<Abs(x[1]), x[2]>>
RMin(x, y) == IF RLe(x, y) THEN x ELSE y
RMax(x, y) == IF RLe(x, y) THEN y ELSE x

\* a rotate / output / color compound: three channels
Vec3(x, y, z) == <<x, y, z>>
VZero == Vec3(RZero, RZero, RZero)

(* ------------------------------------------------- host node evaluation *)

\* plusMinusAverage over input1D[0], input1D[1]: operation 1 sum (the
\* default), 2 subtract
plusMinusAverage(operation, in0, in1) ==
    IF operation = 2 THEN RSub(in0, in1) ELSE RAdd(in0, in1)

\* one channel of multiplyDivide: operation 1 multiply (the default), 2 divide
multiplyDivide(operation, input1, input2) ==
    IF operation = 2 THEN RDiv(input1, input2) ELSE RMul(input1, input2)

\* the comparison of a condition node: 0 equal, 1 not equal, 2 greater than,
\* 3 greater or equal, 4 less than, 5 less or equal
conditionHolds(operation, firstTerm, secondTerm) ==
    CASE operation = 0 -> firstTerm = secondTerm
      [] operation = 1 -> firstTerm # secondTerm
      [] operation = 2 -> RLt(secondTerm, firstTerm)
      [] operation = 3 -> RLe(secondTerm, firstTerm)
      [] operation = 4 -> RLt(firstTerm, secondTerm)
      [] OTHER         -> RLe(firstTerm, secondTerm)

condition(operation, firstTerm, secondTerm, colorIfTrue, colorIfFalse) ==
    IF conditionHolds(operation, firstTerm, secondTerm)
    THEN colorIfTrue ELSE colorIfFalse

\* remapValue with its default linear value ramp: the input is normalised
\* over [inputMin, inputMax], clamped to [0, 1] and mapped onto
\* [outputMin, outputMax]
remapValue(inputValue, inputMin, inputMax, outputMin, outputMax) ==
    LET t == RDiv(RSub(inputValue, inputMin), RSub(inputMax, inputMin))
        c == RMax(RZero, RMin(ROne, t))
    IN  RAdd(outputMin, RMul(c, RSub(outputMax, outputMin)))

\* setAttr on an attribute added with minValue / maxValue clamps the value
clampAttr(value, minValue, maxValue) == RMax(minValue, RMin(maxValue, value))

(* ----------------------------------------------------------------- naming *)

\* strings are sequences of one-character strings
Underscore == <<"_">>

\* the "__" a caller enters for a field that is not included
Omitted == <<"_", "_">>

\* str.replace("___", ""): the occurrences are found left to right, without
\* overlap, in a single pass
RECURSIVE PyReplace(_)
PyReplace(s) ==
    IF Len(s) < 3 THEN s
    ELSE IF s[1] = "_" /\ s[2] = "_" /\ s[3] = "_"
         THEN PyReplace(SubSeq(s, 4, Len(s)))
         ELSE <<s[1]>> \o PyReplace(Tail(s))

\* name_object under the configuration (system_name, side, suffix)
name_object_with(system_name_, side_, suffix_, name, node_name, include_system_name) ==
    LET U == Underscore
        composed ==
            IF suffix_
            THEN IF include_system_name
                 THEN name \o U \o system_name_ \o U \o node_name \o U \o side_
                 ELSE name \o U \o node_name \o U \o side_
            ELSE IF include_system_name
                 THEN side_ \o U \o name \o U \o system_name_ \o U \o node_name
                 ELSE side_ \o U \o name \o U \o node_name
    IN  PyReplace(composed)

(* ------------------------------------------------------------ scene nodes *)

\* a scene node: its role in the rig and up to two ordinals (joint, control)
Node(kind, a, b) == [kind |-> kind, a |-> a, b |-> b]

World == Node("world", 0, 0)

\* the dependency nodes the script creates for one control
ControlNodeKinds ==
    {"ctrl", "ctrl_grp", "ctrl_jnts_effected_multi", "ctrl_jnts_effected_remap",
     "follicleShape", "follicle"}

\* the dependency nodes the script creates for one offset group
NetworkNodeKinds ==
    {"ctrlpos_minus_falloff_pma", "ctrlpos_plus_falloff_pma",
     "rotation_multiplier_multi",
     "jntpos_minus_rear_falloff_pma", "ctrlpos_minus_rear_falloff_pma",
     "jntpos_minus_front_falloff_pma", "ctrlpos_minus_front_falloff_pma",
     "side_switch_condition", "rot_mult_by_ctrl_rot_multi",
     "num_of_jnts_div_multi", "num_jnts_times_ctrl_rot_multi",
     "final_multi", "final_condition"}

ClosestPointNodes ==
    {Node("closestPointOnSurface", 0, 0), Node("closest_point_locator", 0, 0),
     Node("closest_point_second_locator", 0, 0)}

(* ------------------------------------------------------------------ state *)

VARIABLES
    pc,                 \* position of build_variable_fk
    error,              \* the message of cmds.error, "" when none was raised
    sel,                \* the user's selection: the node type of each node
    number_of_controls, \* argument of build_variable_fk
    selection,          \* cmds.ls(selection=True, type="joint"): indices into sel
    created,            \* nodes the script created (and has not deleted)
    deleted,            \* nodes the script deleted
    hidden,             \* nodes the script hid
    parent,             \* parent of every transform the script created
    control_groups,     \* list of (control_curve, control_group)
    position,           \* control attribute position, by control ordinal
    falloff,            \* control attribute falloff, by control ordinal
    rotate,             \* control rotation, by control ordinal
    remap_outputMax,    \* outputMax set on each control's remapValue node
    control_joints,     \* list of the duplicated joints
    duplicate_of,       \* the selection index each control joint duplicates
    jointPosition,      \* control joint attribute jointPosition
    rotate_input,       \* offset group <<j, i>> -> the <<joint, control>> of
                        \* the network whose final_condition drives its rotate
    oriented_to,        \* by control: the control joint its group was oriented to
    skin_influences,    \* the joints bound by cmds.skinCluster, in order
    constraints,        \* parentConstraint(ctrl_jnt, bind_jnt) pairs, in order
    edits,              \* attribute edits made on the built rig
    system_name, side, suffix,  \* module-level naming configuration
    call,               \* arguments of the name_object call under study
    returned            \* the strings the calls of name_object returned

scene == <<created, deleted, hidden, parent>>
rig == <<control_groups, position, falloff, rotate, remap_outputMax,
         control_joints, duplicate_of, jointPosition, rotate_input,
         oriented_to, skin_influences, constraints>>
naming == <<system_name, side, suffix, call, returned>>
vars == <<pc, error, sel, number_of_controls, selection, scene, rig, edits, naming>>

(* ----------------------------------------------------------- environment *)

NodeTypes == {"joint", "mesh"}

\* the selections a user can hand to the build
Selections == UNION {[1..n -> NodeTypes] : n \in 0..MaxSel}

\* normalised V positions the closest-point query can report for a joint
PosValues == {Rat(3, 10), Rat(1, 2), Rat(7, 10)}

\* the module-level system_name, "trunk_var_fk"
SystemName == <<"t", "r", "u", "n", "k", "_", "v", "a", "r", "_", "f", "k">>

\* the defaults of name_object's parameters
DefaultCall ==
    [name |-> Omitted, node_name |-> Omitted, include_system_name |-> TRUE]

\* the scene and the rig before build_variable_fk has run
BuildIdle ==
    /\ pc = "start"
    /\ error = ""
    /\ selection = <<>>
    /\ created = {}
    /\ deleted = {}
    /\ hidden = {}
    /\ parent = <<>>
    /\ control_groups = <<>>
    /\ position = <<>>
    /\ falloff = <<>>
    /\ rotate = <<>>
    /\ remap_outputMax = <<>>
    /\ control_joints = <<>>
    /\ duplicate_of = <<>>
    /\ jointPosition = <<>>
    /\ rotate_input = <<>>
    /\ oriented_to = <<>>
    /\ skin_influences = <<>>
    /\ constraints = <<>>
    /\ edits = 0

\* the naming configuration as the module sets it
NamingIdle ==
    /\ system_name = SystemName
    /\ side = Omitted
    /\ suffix = TRUE
    /\ call = DefaultCall
    /\ returned = <<>>

Init ==
    /\ BuildIdle
    /\ NamingIdle
    /\ sel \in Selections
    /\ number_of_controls \in 1..MaxControls

(* ------------------------------------------------- selection and surface *)

\* cmds.ls(selection=True, type="joint"): the selected nodes of type joint,
\* in selection order
ls_selection_joints(s) ==
    LET F[k \in 0..Len(s)] ==
            IF k = 0 THEN <<>>
            ELSE IF s[k] = "joint" THEN Append(F[k - 1], k) ELSE F[k - 1]
    IN  F[Len(s)]

Surface == Node("surface", 0, 0)
TempCurves == {Node("temp_variable_fk_curve", 0, 0), Node("temp_variable_fk_curve", 1, 0)}

\* create_nurbs_surface checking its joints after it has drawn the curve
create_nurbs_surface_late_check(types, joints) ==
    IF Len(joints) < 3
    THEN [error |-> "Please select at least 3 input joints",
          created |-> {Node("temp_variable_fk_curve", 0, 0)}, deleted |-> {}]
    ELSE [error |-> "", created |-> {Surface}, deleted |-> TempCurves]

\* create_nurbs_surface: the error it raises ("" when none) and what it has
\* created and deleted when it returns or raises
create_nurbs_surface(types, joints) ==
    IF Len(joints) < 3
    THEN [error |-> "Please select at least 3 input joints",
          created |-> {}, deleted |-> {}]
    ELSE IF \E k \in 1..Len(joints) : types[joints[k]] # "joint"
    THEN [error |-> "Select only joints", created |-> {}, deleted |-> {}]
    ELSE [error |-> "", created |-> {Surface}, deleted |-> TempCurves]

\* build_variable_fk up to the control loop: selection query, surface
Start ==
    /\ pc = "start"
    /\ LET s == ls_selection_joints(sel)
           r == create_nurbs_surface(sel, s)
       IN  /\ selection' = s
           /\ IF s = <<>>
              THEN /\ error' = "Nothing selected"
                   /\ pc' = "error"
                   /\ UNCHANGED scene
              ELSE /\ error' = r.error
                   /\ created' = created \cup r.created
                   /\ deleted' = deleted \cup r.deleted
                   /\ IF r.error # ""
                      THEN pc' = "error" /\ UNCHANGED <<hidden, parent>>
                      ELSE /\ pc' = "controls"
                           /\ hidden' = hidden \cup {Surface}
                           /\ parent' = (Surface :> World) @@ parent
    /\ UNCHANGED <<sel, number_of_controls, rig, edits, naming>>

(* ---------------------------------------------------------------- controls *)

\* current_value dividing by number_of_controls
current_value_unshifted(value, n) == Rat(value, n)

\* current_value = value / (number_of_controls+1)
current_value(value, n) == Rat(value, n + 1)

\* the (defaultValue, minValue, maxValue) of the attributes added to a control
position_attr(value, n) ==
    [defaultValue |-> current_value(value, n), minValue |-> RZero, maxValue |-> ROne]

falloff_attr ==
    [defaultValue |-> Rat(2, 10), minValue |-> Rat(1, 10), maxValue |-> Rat(5, 10)]

\* one iteration of the control loop
CreateControl ==
    /\ pc = "controls"
    /\ LET value == Len(control_groups) + 1
           ctrl == Node("ctrl", value, 0)
           grp == Node("ctrl_grp", value, 0)
           fol == Node("follicle", value, 0)
       IN  /\ created' = created \cup {Node(k, value, 0) : k \in ControlNodeKinds}
           /\ parent' = (ctrl :> grp) @@ (grp :> fol) @@ (fol :> World) @@ parent
           /\ hidden' = hidden \cup {Node("follicleShape", value, 0)}
           /\ control_groups' = Append(control_groups, <<ctrl, grp>>)
           /\ position' = Append(position, position_attr(value, number_of_controls).defaultValue)
           /\ falloff' = Append(falloff, falloff_attr.defaultValue)
           /\ rotate' = Append(rotate, VZero)
           /\ remap_outputMax' = Append(remap_outputMax, RInt(Len(selection)))
           /\ pc' = IF value = number_of_controls THEN "closest" ELSE "controls"
    /\ UNCHANGED <<error, sel, number_of_controls, selection, deleted,
                   control_joints, duplicate_of, jointPosition, rotate_input,
                   oriented_to, skin_influences, constraints, edits, naming>>

\* cmds.ClosestPointOn on the surface
SetupClosestPoint ==
    /\ pc = "closest"
    /\ created' = created \cup ClosestPointNodes
    /\ pc' = "joints"
    /\ UNCHANGED <<error, sel, number_of_controls, selection, deleted, hidden,
                   parent, rig, edits, naming>>

(* ----------------------------------------------------------- control joints *)

ControlJoint(j) == Node("ctrl_jnt", j, 0)
OffsetGroup(j, ctrl) == Node("ctrl_jnt_offset_grp", j, ctrl)
MainOffsetGroup(j) == Node("ctrl_jnt_main_offset_grp", j, 0)

\* create_offset_group leaving the new group at the world
create_offset_group_unparented(p, offset_group, target) ==
    [((offset_group :> World) @@ p) EXCEPT ![target] = offset_group]

\* create_offset_group on the parent relation p: an empty group is created
\* at the world, the target goes under it, and the group goes under the
\* parent the target had (World stands for no parent)
create_offset_group(p, offset_group, target) ==
    LET target_original_parent == p[target]
        grouped == [((offset_group :> World) @@ p) EXCEPT ![target] = offset_group]
    IN  IF target_original_parent # World
        THEN [grouped EXCEPT ![offset_group] = target_original_parent]
        ELSE grouped

\* the list comprehension building joint_offset_groups for ctrl = 1..n
RECURSIVE joint_offset_groups(_, _, _)
joint_offset_groups(p, j, n) ==
    IF n = 0 THEN p
    ELSE create_offset_group(joint_offset_groups(p, j, n - 1),
                             OffsetGroup(j, n), ControlJoint(j))

\* the control whose attributes feed the network of the index-th offset
\* group of a joint (index counts from 0): control_groups[index][0]
current_control(groups, index) == groups[index + 1][1]

\* the parent relation after the offset groups of joint j are in place
offset_chain(p, existing, j, n) ==
    LET world_parented == (ControlJoint(j) :> World) @@ p
        chained == joint_offset_groups(world_parented, j, n)
        with_main == create_offset_group(chained, MainOffsetGroup(j), OffsetGroup(j, 1))
        duplicated_joint_parent == ControlJoint(j - 1)
    IN  IF duplicated_joint_parent \in existing
        THEN [with_main EXCEPT ![MainOffsetGroup(j)] = duplicated_joint_parent]
        ELSE with_main

\* one iteration of the joint loop: duplicate, sample, offset groups, networks
CreateControlJoint ==
    /\ pc = "joints"
    /\ \E normalized_joint_v_position \in PosValues :
         LET j == Len(control_joints) + 1
             n == number_of_controls
         IN  /\ control_joints' = Append(control_joints, ControlJoint(j))
             /\ duplicate_of' = Append(duplicate_of, selection[j])
             /\ jointPosition' = Append(jointPosition, normalized_joint_v_position)
             /\ parent' = offset_chain(parent, created, j, n)
             /\ created' = created
                    \cup {ControlJoint(j), MainOffsetGroup(j)}
                    \cup {OffsetGroup(j, i) : i \in 1..n}
                    \cup {Node(k, j, i) : k \in NetworkNodeKinds, i \in 1..n}
             /\ rotate_input' =
                    [o \in {<<j, i>> : i \in 1..n} |->
                        [joint |-> j,
                         control |-> current_control(control_groups, o[2] - 1).a]]
                    @@ rotate_input
             /\ pc' = IF j = Len(selection) THEN "cleanup" ELSE "joints"
    /\ UNCHANGED <<error, sel, number_of_controls, selection, deleted, hidden,
                   control_groups, position, falloff, rotate, remap_outputMax,
                   oriented_to, skin_influences, constraints, edits, naming>>

\* the closest point constraint and its locators are removed
DeleteClosestPoint ==
    /\ pc = "cleanup"
    /\ created' = created \ ClosestPointNodes
    /\ deleted' = deleted \cup ClosestPointNodes
    /\ pc' = "orient"
    /\ UNCHANGED <<error, sel, number_of_controls, selection, hidden, parent,
                   rig, edits, naming>>

(* --------------------------------------------------------- post-processing *)

\* min keeping the last of the smallest elements
PyMin_last(values, target) ==
    LET key(v) == RAbs(RSub(v, target))
        F[k \in 1..Len(values)] ==
            IF k = 1 THEN values[1]
            ELSE IF RLe(key(values[k]), key(F[k - 1])) THEN values[k] ELSE F[k - 1]
    IN  F[Len(values)]

\* Python's min(values, key=...) with key = distance to target: the first
\* element whose key is smallest
PyMin(values, target) ==
    LET key(v) == RAbs(RSub(v, target))
        F[k \in 1..Len(values)] ==
            IF k = 1 THEN values[1]
            ELSE IF RLt(key(values[k]), key(F[k - 1])) THEN values[k] ELSE F[k - 1]
    IN  F[Len(values)]

\* list.index(value): the first index holding the value
PyIndex(values, value) ==
    CHOOSE k \in 1..Len(values) :
        /\ values[k] = value
        /\ \A m \in 1..(k - 1) : values[m] # value

\* the control joint a control is oriented to
closest_joint(joints, joint_positions, ctrl_position) ==
    joints[PyIndex(joint_positions, PyMin(joint_positions, ctrl_position))]

\* one iteration of the orientation loop
OrientControl ==
    /\ pc = "orient"
    /\ LET k == Len(oriented_to) + 1
           ctrl_position == position[control_groups[k][1].a]
       IN  /\ oriented_to' =
                  Append(oriented_to,
                         closest_joint(control_joints, jointPosition, ctrl_position))
           /\ pc' = IF k = Len(control_groups) THEN "skin" ELSE "orient"
    /\ UNCHANGED <<error, sel, number_of_controls, selection, scene,
                   control_groups, position, falloff, rotate, remap_outputMax,
                   control_joints, duplicate_of, jointPosition, rotate_input,
                   skin_influences, constraints, edits, naming>>

\* cmds.skinCluster(control_joints, nurbs_surface)
SkinBind ==
    /\ pc = "skin"
    /\ skin_influences' = control_joints
    /\ created' = created \cup {Node("skinCluster", 0, 0)}
    /\ pc' = "constrain"
    /\ UNCHANGED <<error, sel, number_of_controls, selection, deleted, hidden,
                   parent, control_groups, position, falloff, rotate,
                   remap_outputMax, control_joints, duplicate_of, jointPosition,
                   rotate_input, oriented_to, constraints, edits, naming>>

\* the pairs with the control joints taken in reverse order
bind_joint_pairs_reversed(binds, ctrls) ==
    [k \in 1..(IF Len(binds) < Len(ctrls) THEN Len(binds) ELSE Len(ctrls)) |->
        [ctrl_jnt |-> ctrls[Len(ctrls) + 1 - k], bind_jnt |-> binds[k]]]

\* zip(selection, control_joints) as (ctrl_jnt, bind_jnt) pairs
bind_joint_pairs(binds, ctrls) ==
    [k \in 1..(IF Len(binds) < Len(ctrls) THEN Len(binds) ELSE Len(ctrls)) |->
        [ctrl_jnt |-> ctrls[k], bind_jnt |-> binds[k]]]

\* the parent constraints of the selected joints, then the build is over
ConstrainJoints ==
    /\ pc = "constrain"
    /\ constraints' = bind_joint_pairs(selection, control_joints)
    /\ created' = created \cup {Node("parentConstraint", k, 0) : k \in 1..Len(selection)}
    /\ pc' = "done"
    /\ UNCHANGED <<error, sel, number_of_controls, selection, deleted, hidden,
                   parent, control_groups, position, falloff, rotate,
                   remap_outputMax, control_joints, duplicate_of, jointPosition,
                   rotate_input, oriented_to, skin_influences, edits, naming>>

Next ==
    \/ Start
    \/ CreateControl
    \/ SetupClosestPoint
    \/ CreateControlJoint
    \/ DeleteClosestPoint
    \/ OrientControl
    \/ SkinBind
    \/ ConstrainJoints

Spec == Init /\ [][Next]_vars

(* ------------------------------------------------------ the built network *)

Channels == {1, 2, 3}

\* joints_effected_multi with input2X left at 1
joints_effected_multi_undoubled(c) == multiplyDivide(1, falloff[c], RInt(1))

\* joints_effected_multi: falloff * 2
joints_effected_multi(c) == multiplyDivide(1, falloff[c], RInt(2))

\* joint_effected_remap drives the control's numOfJointsEffected
numOfJointsEffected(c) ==
    remapValue(joints_effected_multi(c), RZero, ROne, ROne, remap_outputMax[c])

falloff_rear_position(c) == plusMinusAverage(2, position[c], falloff[c])
falloff_front_position(c) == plusMinusAverage(1, position[c], falloff[c])

jnt_pos_minus_falloff_pos(j, falloff_position) ==
    plusMinusAverage(2, jointPosition[j], falloff_position)

\* ctrl_pos_minus_falloff_pos with operation left at its default, sum
ctrl_pos_minus_falloff_pos_summed(c, falloff_position) ==
    plusMinusAverage(1, position[c], falloff_position)

ctrl_pos_minus_falloff_pos(c, falloff_position) ==
    plusMinusAverage(2, position[c], falloff_position)

\* output of rotation_multiplier on channel multi_attr: X carries the rear
\* ratio, Y the front ratio
rotation_multiplier(j, c, multi_attr) ==
    LET falloff_position ==
            IF multi_attr = "X" THEN falloff_rear_position(c)
            ELSE falloff_front_position(c)
    IN  multiplyDivide(2, jnt_pos_minus_falloff_pos(j, falloff_position),
                          ctrl_pos_minus_falloff_pos(c, falloff_position))

\* side_switch_condition with the two ratios wired to the wrong branches
side_switch_condition_swapped(j, c) ==
    condition(3, position[c], jointPosition[j],
              rotation_multiplier(j, c, "Y"), rotation_multiplier(j, c, "X"))

\* outColorR of side_switch_condition
side_switch_condition(j, c) ==
    condition(3, position[c], jointPosition[j],
              rotation_multiplier(j, c, "X"), rotation_multiplier(j, c, "Y"))

\* the channel of rotation_multiplier that side_switch_condition passes on
\* to outColorR: outputX is wired to colorIfTrueR, outputY to colorIfFalseR
side_switch_selected(j, c) ==
    IF conditionHolds(3, position[c], jointPosition[j]) THEN "X" ELSE "Y"

control_rotation_by_rot_multi(j, c) ==
    [ch \in Channels |-> multiplyDivide(1, side_switch_condition(j, c), rotate[c][ch])]

\* outputX of number_of_joints_division_multi
number_of_joints_division_multi(c) ==
    multiplyDivide(2, ROne, numOfJointsEffected(c))

num_jnts_times_ctrl_rot_multi(j, c) ==
    [ch \in Channels |->
        multiplyDivide(1, number_of_joints_division_multi(c),
                          control_rotation_by_rot_multi(j, c)[ch])]

final_multiplier_multi(j, c) ==
    [ch \in Channels |->
        multiplyDivide(1, num_jnts_times_ctrl_rot_multi(j, c)[ch], RInt(6))]

\* outColor of final_condition
final_condition(j, c) ==
    condition(2, side_switch_condition(j, c), RZero,
              final_multiplier_multi(j, c), VZero)

\* the rotation an offset group receives over its incoming connection
offset_rotate(j, i) ==
    final_condition(rotate_input[<<j, i>>].joint, rotate_input[<<j, i>>].control)

(* ------------------------------------------------------- the animator's edits *)

FalloffInputs == {RZero, Rat(1, 10), Rat(1, 2), ROne}
PositionInputs == {Rat(-1, 2), Rat(3, 10), Rat(3, 2)}
RotateInputs == {Vec3(RInt(30), RInt(-45), RInt(90))}

SetFalloff ==
    /\ pc = "done"
    /\ edits < MaxEdits
    /\ \E c \in 1..Len(control_groups), v \in FalloffInputs :
         falloff' = [falloff EXCEPT
                        ![c] = clampAttr(v, falloff_attr.minValue, falloff_attr.maxValue)]
    /\ edits' = edits + 1
    /\ UNCHANGED <<pc, error, sel, number_of_controls, selection, scene,
                   control_groups, position, rotate, remap_outputMax,
                   control_joints, duplicate_of, jointPosition, rotate_input,
                   oriented_to, skin_influences, constraints, naming>>

SetPosition ==
    /\ pc = "done"
    /\ edits < MaxEdits
    /\ \E c \in 1..Len(control_groups), v \in PositionInputs :
         position' = [position EXCEPT
                        ![c] = clampAttr(v, position_attr(c, number_of_controls).minValue,
                                            position_attr(c, number_of_controls).maxValue)]
    /\ edits' = edits + 1
    /\ UNCHANGED <<pc, error, sel, number_of_controls, selection, scene,
                   control_groups, falloff, rotate, remap_outputMax,
                   control_joints, duplicate_of, jointPosition, rotate_input,
                   oriented_to, skin_influences, constraints, naming>>

SetRotate ==
    /\ pc = "done"
    /\ edits < MaxEdits
    /\ \E c \in 1..Len(control_groups), v \in RotateInputs :
         rotate' = [rotate EXCEPT ![c] = v]
    /\ edits' = edits + 1
    /\ UNCHANGED <<pc, error, sel, number_of_controls, selection, scene,
                   control_groups, position, falloff, remap_outputMax,
                   control_joints, duplicate_of, jointPosition, rotate_input,
                   oriented_to, skin_influences, constraints, naming>>

\* the build over selections of joints only, then the animator at work
InitLive ==
    /\ BuildIdle
    /\ NamingIdle
    /\ sel \in {s \in Selections : \A k \in 1..Len(s) : s[k] = "joint"}
    /\ number_of_controls \in 1..MaxControls

NextLive ==
    \/ Start
    \/ CreateControl
    \/ SetupClosestPoint
    \/ CreateControlJoint
    \/ DeleteClosestPoint
    \/ OrientControl
    \/ SkinBind
    \/ ConstrainJoints
    \/ SetFalloff
    \/ SetPosition
    \/ SetRotate

SpecLive == InitLive /\ [][NextLive]_vars

(* ------------------------------------------------------ name_object alone *)

\* calls of name_object made with the same arguments
MaxCalls == 2

Names == {Omitted, <<"a">>, <<"a", "_", "b">>}
NodeNames == {Omitted, <<"n">>, <<"0", "1", "_", "c">>}
Sides == {Omitted, <<"l">>}
SystemNames == {SystemName, <<"s">>}

name_object(name, node_name, include_system_name) ==
    name_object_with(system_name, side, suffix, name, node_name, include_system_name)

InitName ==
    /\ BuildIdle
    /\ sel = <<>>
    /\ number_of_controls = 1
    /\ system_name \in SystemNames
    /\ side \in Sides
    /\ suffix \in BOOLEAN
    /\ call \in [name : Names, node_name : NodeNames, include_system_name : BOOLEAN]
    /\ returned = <<>>

CallNameObject ==
    /\ Len(returned) < MaxCalls
    /\ returned' = Append(returned,
                          name_object(call.name, call.node_name, call.include_system_name))
    /\ UNCHANGED <<pc, error, sel, number_of_controls, selection, scene, rig,
                   edits, system_name, side, suffix, call>>

NextName == CallNameObject

SpecName == InitName /\ [][NextName]_vars

(* ------------------------------------------------------------- properties *)

\* the number of joints among the selected nodes
JointCount == Cardinality({k \in DOMAIN sel : sel[k] = "joint"})

Built == pc = "done"

\* the weight the network wired into offset group <<j, i>> computes
network_weight(j, i) ==
    side_switch_condition(rotate_input[<<j, i>>].joint, rotate_input[<<j, i>>].control)

\* C1: for every joint j and control c the rotation delivered to joint j's
\* offset node for control c is sideSelect * rotation * (1 / numOfJointsEffected) * 2
\* on each of X, Y, Z when sideSelect > 0, and 0 on every channel otherwise.
C1_ScaleFactorTwo ==
    Built =>
        \A j \in 1..Len(control_joints), c \in 1..Len(control_groups) :
            LET sideSelect == network_weight(j, c)
                share(ch) ==
                    RMul(RMul(RMul(sideSelect, rotate[c][ch]),
                              RDiv(ROne, numOfJointsEffected(c))), RInt(2))
            IN  offset_rotate(j, c) =
                    IF RLt(RZero, sideSelect)
                    THEN [ch \in Channels |-> share(ch)]
                    ELSE VZero

\* C2: weight decay law.  For every control (position p, falloff f within
\* [0.1, 0.5]) and every joint, the weight is 1 - |j.pos - p| / f: 0 for a
\* joint at p + f or p - f, 1 for a joint at p, and never more than 1.
C2_WeightDecayLaw ==
    Built =>
        \A j \in 1..Len(control_joints), c \in 1..Len(control_groups) :
            LET p == position[c]
                f == falloff[c]
                jp == jointPosition[j]
            IN  \A w \in {network_weight(j, c)} :
                    /\ f[1] * 10 >= f[2] /\ f[1] * 2 <= f[2]
                    /\ w = RSub(ROne, RDiv(RAbs(RSub(jp, p)), f))
                    /\ w[1] <= w[2]
                    /\ (jp = RAdd(p, f) \/ jp = RSub(p, f)) => w = RZero
                    /\ jp = p => w = ROne

\* a control with one joint at p - f, one at p and one at p + f
C2_Witness ==
    /\ Built
    /\ \E c \in 1..Len(control_groups) :
         \E j1, j2, j3 \in 1..Len(control_joints) :
            /\ jointPosition[j1] = RSub(position[c], falloff[c])
            /\ jointPosition[j2] = position[c]
            /\ jointPosition[j3] = RAdd(position[c], falloff[c])

\* C3 as stated: numOfJointsEffected is non-decreasing in falloff, equals 1 at
\* falloff = 0.1 and equals the joint count at falloff = 0.5.
C3_AsStated ==
    Built =>
        \A num \in {[c \in 1..Len(control_groups) |-> numOfJointsEffected(c)]} :
            \A c \in 1..Len(control_groups) :
                /\ \A d \in 1..Len(control_groups) :
                     RLe(falloff[c], falloff[d]) => RLe(num[c], num[d])
                /\ falloff[c] = Rat(1, 10) => num[c] = ROne
                /\ falloff[c] = Rat(1, 2) => num[c] = RInt(JointCount)

\* C3 (amended): numOfJointsEffected is non-decreasing in falloff over
\* [0.1, 0.5] and equals 1 + 2 * falloff * (J - 1): (J + 4) / 5 at falloff =
\* 0.1 and the joint count J at falloff = 0.5.
C3_FalloffMapping ==
    Built =>
        \A num \in {[c \in 1..Len(control_groups) |-> numOfJointsEffected(c)]} :
            \A c \in 1..Len(control_groups) :
                /\ \A d \in 1..Len(control_groups) :
                     RLe(falloff[c], falloff[d]) => RLe(num[c], num[d])
                /\ num[c][1] * falloff[c][2] =
                     num[c][2] * (falloff[c][2] + 2 * falloff[c][1] * (JointCount - 1))
                /\ falloff[c] = Rat(1, 10) =>
                     num[c][1] * 5 = num[c][2] * (JointCount + 4)
                /\ falloff[c] = Rat(1, 2) => num[c] = RInt(JointCount)

\* two controls of a built rig, one at the minimum falloff and one above it
C3_Witness ==
    /\ Built
    /\ \E c, d \in 1..Len(control_groups) :
         falloff[c] = Rat(1, 10) /\ RLt(falloff[c], falloff[d])

\* C4: spacing invariant.  Exactly number_of_controls controls are created;
\* the k-th has default position k / (N + 1); the positions are strictly
\* increasing and strictly inside (0, 1); the default falloff is 0.2, within
\* [0.1, 0.5].
C4_SpacingInvariant ==
    /\ \A k \in 1..Len(position) :
         /\ position[k][1] * (number_of_controls + 1) = k * position[k][2]
         /\ RLt(RZero, position[k]) /\ RLt(position[k], ROne)
         /\ k > 1 => RLt(position[k - 1], position[k])
         /\ falloff[k][1] * 10 = 2 * falloff[k][2]
         /\ RLe(Rat(1, 10), falloff[k]) /\ RLe(falloff[k], Rat(1, 2))
    /\ pc \in {"closest", "joints", "cleanup", "orient", "skin", "constrain", "done"} =>
         /\ Len(control_groups) = number_of_controls
         /\ Len(position) = number_of_controls
         /\ Cardinality({n \in created : n.kind = "ctrl"}) = number_of_controls

\* a finished build with more than one control
C4_Witness == Built /\ number_of_controls > 1 /\ Len(position) = number_of_controls

HasDoubledSeparator(str) ==
    \E i \in 1..(Len(str) - 1) : str[i] = "_" /\ str[i + 1] = "_"

\* C5: under a fixed naming configuration name_object is deterministic and,
\* for every combination of arguments (any of name, node_name and side being
\* the "__" placeholder, suffix or prefix order), the returned string holds
\* no two adjacent underscores.
C5_NoDoubledSeparator ==
    \A i \in 1..Len(returned) :
        /\ returned[i] = returned[1]
        /\ ~HasDoubledSeparator(returned[i])

\* the scene and the rig are as they were before the build
Untouched ==
    /\ created = {} /\ deleted = {} /\ hidden = {} /\ parent = <<>>
    /\ control_groups = <<>> /\ control_joints = <<>> /\ rotate_input = <<>>
    /\ skin_influences = <<>> /\ constraints = <<>>

\* C6: with an empty selection or fewer than 3 joints selected, build stops
\* with an error before any scene mutation: nothing has been created,
\* deleted, hidden or re-parented.
C6_ErrorBeforeMutation ==
    /\ (JointCount < 3 /\ pc # "start") => (pc = "error" /\ error # "" /\ Untouched)
    /\ pc = "error" => (JointCount < 3 /\ Untouched)

\* the build has stopped on a selection of one or two joints
C6_Witness == pc = "error" /\ JointCount \in {1, 2} /\ error # ""

\* C7: whenever the selection holds a node that is not a joint, build fails
\* with a precondition error instead of constructing a rig.
C7_NonJointRejected ==
    ((\E k \in DOMAIN sel : sel[k] # "joint") /\ pc # "start") =>
        (pc = "error" /\ Untouched)

\* the indices of the control joints nearest to a position
Nearest(p) ==
    {m \in 1..Len(jointPosition) :
        \A o \in 1..Len(jointPosition) :
            RLe(RAbs(RSub(jointPosition[m], p)), RAbs(RSub(jointPosition[o], p)))}

\* C8: the control joint a control's group is oriented to minimises
\* |jointPosition - control.position|; among several at the minimum it is
\* the first in selection order; a joint at the control's position wins
\* over its neighbours.
C8_OrientationMatching ==
    \A k \in 1..Len(oriented_to) :
        LET p == position[k]
            m == CHOOSE x \in Nearest(p) : \A y \in Nearest(p) : x <= y
        IN  /\ oriented_to[k] = control_joints[m]
            /\ oriented_to[k] = ControlJoint(m)
            /\ (\E o \in 1..Len(jointPosition) : jointPosition[o] = p) =>
                   jointPosition[m] = p

\* a control with two nearest joints at different positions
C8_Witness ==
    /\ Built
    /\ \E k \in 1..Len(oriented_to) :
         \E x, y \in Nearest(position[k]) : jointPosition[x] # jointPosition[y]

\* the k-th joint of the selection, counted over the joints only
KthJoint(k) ==
    CHOOSE i \in DOMAIN sel :
        sel[i] = "joint" /\ Cardinality({m \in 1..i : sel[m] = "joint"}) = k

\* C9: after a successful build over J joints there are exactly J control
\* joints, the skin binding holds exactly those in selection order, the
\* k-th selected joint is constrained to the k-th control joint, and the
\* skin bind comes before the constraints.
C9_SkinAndConstraints ==
    /\ constraints # <<>> => skin_influences # <<>>
    /\ Built =>
         /\ Len(control_joints) = JointCount
         /\ Cardinality({n \in created : n.kind = "ctrl_jnt"}) = JointCount
         /\ Len(skin_influences) = JointCount
         /\ Len(constraints) = JointCount
         /\ \A k \in 1..JointCount :
              /\ control_joints[k] = ControlJoint(k)
              /\ duplicate_of[k] = KthJoint(k)
              /\ skin_influences[k] = ControlJoint(k)
              /\ constraints[k] = [ctrl_jnt |-> ControlJoint(k), bind_jnt |-> KthJoint(k)]

\* a finished build over a selection that also held a node of another type
C9_Witness ==
    /\ Built
    /\ JointCount >= 3
    /\ Len(sel) > JointCount
    /\ Len(constraints) = JointCount

\* C10: every control joint j has N offset nodes and one main offset node,
\* parented main_j > offset_j_1 > ... > offset_j_N > ControlJoint_j, main_j
\* under ControlJoint_(j-1) for j > 1 and at the world for j = 1; the
\* rotation of offset_j_i is driven by the network of control i and joint j
\* and by nothing else.
C10_OffsetChain ==
    pc \in {"cleanup", "orient", "skin", "constrain", "done"} =>
        /\ DOMAIN rotate_input = (1..JointCount) \X (1..number_of_controls)
        /\ \A j \in 1..JointCount :
             /\ {n \in created : n.kind = "ctrl_jnt_offset_grp" /\ n.a = j}
                    = {OffsetGroup(j, i) : i \in 1..number_of_controls}
             /\ {n \in created : n.kind = "ctrl_jnt_main_offset_grp" /\ n.a = j}
                    = {MainOffsetGroup(j)}
             /\ parent[ControlJoint(j)] = OffsetGroup(j, number_of_controls)
             /\ \A i \in 2..number_of_controls :
                  parent[OffsetGroup(j, i)] = OffsetGroup(j, i - 1)
             /\ parent[OffsetGroup(j, 1)] = MainOffsetGroup(j)
             /\ parent[MainOffsetGroup(j)] =
                    IF j > 1 THEN ControlJoint(j - 1) ELSE World
             /\ \A i \in 1..number_of_controls :
                  rotate_input[<<j, i>>] = [joint |-> j, control |-> i]

\* a finished build with two controls over at least three joints
C10_Witness ==
    /\ Built
    /\ number_of_controls >= 2
    /\ JointCount >= 3
    /\ parent[OffsetGroup(JointCount, 2)] = OffsetGroup(JointCount, 1)

\* C11: the side switch passes on the rear ratio (outputX) exactly when
\* c.position > j.pos, strictly, and the front ratio (outputY) otherwise; at
\* j.pos = c.position the front ratio is the one used.
C11_SideSelection ==
    Built =>
        \A j \in 1..Len(control_joints), c \in 1..Len(control_groups) :
            /\ side_switch_selected(j, c) = "X" <=> RLt(jointPosition[j], position[c])
            /\ jointPosition[j] = position[c] => side_switch_selected(j, c) = "Y"
            /\ \A w \in {side_switch_condition(j, c)} :
                 w = rotation_multiplier(j, c,
                        IF RLt(jointPosition[j], position[c]) THEN "X" ELSE "Y")

\* C12: in a rig built from at least 3 joints, for every control whose
\* falloff lies in [0.1, 0.5] and whose position lies in [0, 1], no divide
\* node has a zero divisor: the divisors of rotation_multiplier are falloff
\* (rear) and -falloff (front), both non-zero, and numOfJointsEffected, the
\* divisor of number_of_joints_division_multi, is at least 1.
C12_NoZeroDivisor ==
    Built =>
        /\ JointCount >= 3
        /\ \A c \in 1..Len(control_groups) :
             (/\ RLe(Rat(1, 10), falloff[c]) /\ RLe(falloff[c], Rat(1, 2))
              /\ RLe(RZero, position[c]) /\ RLe(position[c], ROne)) =>
                \A rear \in {ctrl_pos_minus_falloff_pos(c, falloff_rear_position(c))},
                   front \in {ctrl_pos_minus_falloff_pos(c, falloff_front_position(c))},
                   num \in {numOfJointsEffected(c)} :
                    /\ rear = falloff[c] /\ rear[1] # 0
                    /\ front = RSub(RZero, falloff[c]) /\ front[1] # 0
                    /\ num[1] >= num[2]

\* a built rig with a control at the lowest falloff an edit can give, where
\* the divisors are closest to zero
C12_Witness ==
    /\ Built
    /\ JointCount >= 3
    /\ \E c \in 1..Len(control_groups) :
         /\ falloff[c] = Rat(1, 10)
         /\ RLe(RZero, position[c]) /\ RLe(position[c], ROne)
         /\ ctrl_pos_minus_falloff_pos(c, falloff_rear_position(c)) = Rat(1, 10)

====
